---- MODULE Spec2Model ----
(***************************************************************************)
(* Gas metering injection of near/wasm-utils (src/gas/mod.rs).             *)
(*                                                                         *)
(* Instructions are records [op, arg].  Positions in a function body are   *)
(* 0-based as in the Rust code (start_pos, cursor, original_pos); the      *)
(* instruction at position p of a body b is b[p + 1].                      *)
(***************************************************************************)
EXTENDS Integers, Sequences, FiniteSets, TLC

\* ------------------------------------------------------------------ bounds

\* Longest enumerated structured function body (instructions, final end included).
MaxLen == 5
\* Deepest nesting of block/loop/if in an enumerated structured body.
MaxDepth == 2
\* Execution budget of one run of an instrumented body: no step is taken once
\* the rule cost of the executed original instructions reaches it.
MaxGas == 16
\* Longest flat body (final end excluded) of a module given to inject_gas_counter.
MaxBodyLen == 2
\* Largest number of function imports of an input module.
MaxImports == 1
\* insert_metering_calls on its own: longest body, longest block list, largest start_pos.
MaxInsLen == 3
MaxBlocks == 2

\* rules::Set::default().with_grow_cost(10000) of tests::simple_grow
TestGrowCost == 10000

\* ------------------------------------------------------------ instructions

I(op, arg) == [op |-> op, arg |-> arg]

GetGlobal(n) == I("get_global", n)
GetLocal(n) == I("get_local", n)
Drop == I("drop", 0)
I32Const(n) == I("i32_const", n)
F32Const(n) == I("f32_const", n)
I32Mul == I("i32_mul", 0)
Call(n) == I("call", n)
CallIndirect(n) == I("call_indirect", n)
GrowMemory(n) == I("grow_memory", n)
Block == I("block", 0)
Loop == I("loop", 0)
If == I("if", 0)
Else == I("else", 0)
End == I("end", 0)
Br(n) == I("br", n)
BrIf(n) == I("br_if", n)
\* BrTableData { table, default }
BrTable(table, default) == [op |-> "br_table", arg |-> default, table |-> table]
Return == I("return", 0)
Unreachable == I("unreachable", 0)

Min(a, b) == IF a < b THEN a ELSE b

\* ------------------------------------------------------------------- rules

\* rules::Set::process: Err for a forbidden instruction, else its cost.  The
\* default rule set charges 1 for every instruction; with_forbidden_floats
\* forbids the float instructions.
IsForbidden(rules, instr) == rules.forbid_floats /\ instr.op = "f32_const"

InstructionCost(rules, instr) == 1

\* --------------------------------------------- determine_metered_blocks

MeteredBlock(start_pos, cost) == [start_pos |-> start_pos, cost |-> cost]

ControlBlock(index, start_pos, is_loop) ==
    [lowest_forward_br_target |-> index,
     active_metered_block |-> MeteredBlock(start_pos, 0),
     is_loop |-> is_loop]

\* A Counter: the control stack, the finalized blocks, ok = FALSE once a step
\* has failed, and dropped = the metered blocks that were closed with cost 0
\* and therefore not recorded.
NewCounter == [stack |-> <<>>, finalized_blocks |-> <<>>, dropped |-> <<>>, ok |-> TRUE]

Fail(c) == [c EXCEPT !.ok = FALSE]

begin_control_block(c, start_pos, is_loop) ==
    [c EXCEPT !.stack = Append(@, ControlBlock(Len(c.stack), start_pos, is_loop))]

\* Close the active metered block of the top control block and open a new one
\* at cursor + 1.  A block opened by `block` carries the start of the enclosing
\* active metered block: its cost is merged into that one.  A closed block of
\* cost 0 is not recorded.
finalize_metered_block(c, cursor) ==
    IF ~c.ok \/ c.stack = <<>> THEN Fail(c)
    ELSE
      LET n == Len(c.stack)
          closing == c.stack[n].active_metered_block
          c1 == [c EXCEPT !.stack[n].active_metered_block = MeteredBlock(cursor + 1, 0)]
      IN  IF n > 1 /\ closing.start_pos = c.stack[n - 1].active_metered_block.start_pos
          THEN [c1 EXCEPT !.stack[n - 1].active_metered_block.cost = @ + closing.cost]
          ELSE IF closing.cost > 0
               THEN [c1 EXCEPT !.finalized_blocks = Append(@, closing)]
               ELSE [c1 EXCEPT !.dropped = Append(@, closing)]

\* `end`: close the active metered block, pop the control block, hand its
\* lowest forward branch target to the enclosing control block, and close the
\* enclosing active metered block too when a branch may leave the closed block.
finalize_control_block(c, cursor) ==
    LET c1 == finalize_metered_block(c, cursor)
    IN  IF ~c1.ok THEN c1
        ELSE
          LET n == Len(c1.stack)
              closing == c1.stack[n]
              c2 == [c1 EXCEPT !.stack = SubSeq(@, 1, n - 1)]
          IN  IF n = 1 THEN c2
              ELSE
                LET c3 == [c2 EXCEPT !.stack[n - 1].lowest_forward_br_target =
                                        Min(@, closing.lowest_forward_br_target)]
                IN  IF closing.lowest_forward_br_target < n - 1
                    THEN finalize_metered_block(c3, cursor)
                    ELSE c3

RECURSIVE note_targets(_, _)
\* The loop of Counter::branch over the target indices (control stack indices,
\* 0 = the function block): a backward branch (to a loop) is not recorded.
note_targets(c, indices) ==
    IF ~c.ok \/ indices = <<>> THEN c
    ELSE
      LET index == Head(indices)
          n == Len(c.stack)
      IN  IF index + 1 > n THEN Fail(c)
          ELSE IF c.stack[index + 1].is_loop THEN note_targets(c, Tail(indices))
          ELSE note_targets(
                 [c EXCEPT !.stack[n].lowest_forward_br_target = Min(@, index)],
                 Tail(indices))

branch(c, cursor, indices) == note_targets(finalize_metered_block(c, cursor), indices)

increment(c, val) ==
    IF ~c.ok \/ c.stack = <<>> THEN Fail(c)
    ELSE [c EXCEPT !.stack[Len(c.stack)].active_metered_block.cost = @ + val]

RECURSIVE target_indices(_, _)
\* Relative labels to control stack indices; -1 for a label deeper than the stack.
target_indices(active_index, labels) ==
    IF labels = <<>> THEN <<>>
    ELSE <<IF Head(labels) > active_index THEN -1 ELSE active_index - Head(labels)>>
         \o target_indices(active_index, Tail(labels))

HasBadTarget(indices) == \E k \in 1..Len(indices) : indices[k] < 0

\* One iteration of the loop of determine_metered_blocks.
process_instruction(c, rules, cursor, instruction) ==
    IF ~c.ok THEN c
    ELSE IF IsForbidden(rules, instruction) THEN Fail(c)
    ELSE
      LET cost == InstructionCost(rules, instruction)
          op == instruction.op
          inc == increment(c, cost)
          active_index == Len(c.stack) - 1
      IN  CASE op = "block" ->
                 IF ~inc.ok THEN inc
                 ELSE begin_control_block(inc,
                        inc.stack[Len(inc.stack)].active_metered_block.start_pos, FALSE)
            [] op = "if" ->
                 IF ~inc.ok THEN inc ELSE begin_control_block(inc, cursor + 1, FALSE)
            [] op = "loop" ->
                 IF ~inc.ok THEN inc ELSE begin_control_block(inc, cursor + 1, TRUE)
            [] op = "end" -> finalize_control_block(c, cursor)
            [] op = "else" -> finalize_metered_block(c, cursor)
            [] op \in {"br", "br_if"} ->
                 IF ~inc.ok \/ instruction.arg > active_index THEN Fail(inc)
                 ELSE branch(inc, cursor, <<active_index - instruction.arg>>)
            [] op = "br_table" ->
                 LET indices == target_indices(active_index,
                                    Append(instruction.table, instruction.arg))
                 IN  IF ~inc.ok \/ HasBadTarget(indices) THEN Fail(inc)
                     ELSE branch(inc, cursor, indices)
            [] op = "return" ->
                 IF ~inc.ok THEN inc ELSE branch(inc, cursor, <<0>>)
            [] op = "unreachable" ->
                 IF ~inc.ok THEN inc ELSE branch(inc, cursor, <<>>)
            [] OTHER -> inc

RECURSIVE walk(_, _, _, _)
walk(c, rules, instructions, cursor) ==
    IF cursor >= Len(instructions) THEN c
    ELSE walk(process_instruction(c, rules, cursor, instructions[cursor + 1]),
              rules, instructions, cursor + 1)

RECURSIVE insert_sorted(_, _)
insert_sorted(sorted, b) ==
    IF sorted = <<>> THEN <<b>>
    ELSE IF b.start_pos < Head(sorted).start_pos THEN <<b>> \o sorted
    ELSE <<Head(sorted)>> \o insert_sorted(Tail(sorted), b)

RECURSIVE sort_by_start_pos(_)
sort_by_start_pos(blocks) ==
    IF blocks = <<>> THEN <<>>
    ELSE insert_sorted(sort_by_start_pos(SubSeq(blocks, 1, Len(blocks) - 1)),
                       blocks[Len(blocks)])

\* The Counter after the whole body, the finalized blocks sorted by start_pos.
analyze(instructions, rules) ==
    LET c == walk(begin_control_block(NewCounter, 0, FALSE), rules, instructions, 0)
    IN  [c EXCEPT !.finalized_blocks = sort_by_start_pos(@)]

\* Result<Vec<MeteredBlock>, ()>
determine_metered_blocks(instructions, rules) ==
    LET c == analyze(instructions, rules)
    IN  [ok |-> c.ok, blocks |-> IF c.ok THEN c.finalized_blocks ELSE <<>>]

\* ------------------------------------------------- insert_metering_calls

RECURSIVE stream_after(_, _, _, _, _, _)
\* stream with the pair pushed after the instruction at start_pos instead of
\* before it.
stream_after(original_instrs, blocks, gas_func, new_instrs, next_block, original_pos) ==
    IF original_pos >= Len(original_instrs)
    THEN [new_instrs |-> new_instrs, next_block |-> next_block]
    ELSE
      LET instr == original_instrs[original_pos + 1]
          used_block == /\ next_block <= Len(blocks)
                        /\ blocks[next_block].start_pos = original_pos
      IN  IF used_block
          THEN stream_after(original_instrs, blocks, gas_func,
                      new_instrs \o <<instr, I32Const(blocks[next_block].cost), Call(gas_func)>>,
                      next_block + 1, original_pos + 1)
          ELSE stream_after(original_instrs, blocks, gas_func,
                      Append(new_instrs, instr), next_block, original_pos + 1)

RECURSIVE stream(_, _, _, _, _, _)
\* The for loop over the original instructions: new_instrs so far, the block
\* iterator as the index of the block peek() shows, and original_pos.
stream(original_instrs, blocks, gas_func, new_instrs, next_block, original_pos) ==
    IF original_pos >= Len(original_instrs)
    THEN [new_instrs |-> new_instrs, next_block |-> next_block]
    ELSE
      LET instr == original_instrs[original_pos + 1]
          used_block == /\ next_block <= Len(blocks)
                        /\ blocks[next_block].start_pos = original_pos
      IN  IF used_block
          THEN stream(original_instrs, blocks, gas_func,
                      new_instrs \o <<I32Const(blocks[next_block].cost), Call(gas_func), instr>>,
                      next_block + 1, original_pos + 1)
          ELSE stream(original_instrs, blocks, gas_func,
                      Append(new_instrs, instr), next_block, original_pos + 1)

\* insert_metering_calls without the check of lines 91-93.
insert_metering_calls_unchecked(instructions, blocks, gas_func) ==
    [ok |-> TRUE,
     instructions |-> stream(instructions, blocks, gas_func, <<>>, 1, 0).new_instrs]

\* Result<(), ()> and the instructions left in place (replaced in either case).
insert_metering_calls(instructions, blocks, gas_func) ==
    LET s == stream(instructions, blocks, gas_func, <<>>, 1, 0)
    IN  [ok |-> s.next_block > Len(blocks), instructions |-> s.new_instrs]

inject_counter(instructions, rules, gas_func) ==
    LET d == determine_metered_blocks(instructions, rules)
    IN  IF ~d.ok THEN [ok |-> FALSE, instructions |-> instructions]
        ELSE insert_metering_calls(instructions, d.blocks, gas_func)

\* ------------------------------------ update_call_index, inject_grow_counter

update_call_index(instructions, inserted_index) ==
    [k \in 1..Len(instructions) |->
        IF instructions[k].op = "call" /\ instructions[k].arg >= inserted_index
        THEN Call(instructions[k].arg + 1)
        ELSE instructions[k]]

\* The body with every memory.grow replaced, and the number of replacements.
inject_grow_counter(instructions, grow_counter_func) ==
    [instructions |->
        [k \in 1..Len(instructions) |->
            IF instructions[k].op = "grow_memory" THEN Call(grow_counter_func)
            ELSE instructions[k]],
     count |-> Cardinality({k \in 1..Len(instructions) : instructions[k].op = "grow_memory"})]

\* ---------------------------------------------------------------- modules

\* A module: its function imports (names), its code bodies, the function
\* indices of its function exports, its element segments (sequences of
\* function indices) and its start section (<<>> or <<index>>).
GasImport == "env.gas"

import_count(m) == Len(m.imports)

functions_space(m) == Len(m.imports) + Len(m.bodies)

\* The sections inject_gas_counter has a match arm for, in the order of the
\* binary format, those the module has.
SectionOrder == <<"export", "start", "element", "code">>

HasSection(m, s) ==
    CASE s = "export" -> m.exports # <<>>
      [] s = "start" -> m.start # <<>>
      [] s = "element" -> m.elements # <<>>
      [] s = "code" -> m.bodies # <<>>

RECURSIVE present(_, _)
present(m, order) ==
    IF order = <<>> THEN <<>>
    ELSE (IF HasSection(m, Head(order)) THEN <<Head(order)>> ELSE <<>>)
         \o present(m, Tail(order))

sections(m) == present(m, SectionOrder)

GrowThunk(rules, gas_func) ==
    <<GetLocal(0), GetLocal(0), I32Const(rules.grow_cost), I32Mul,
      Call(gas_func), GrowMemory(0), End>>

\* add_grow_counter that does not push the thunk.
add_grow_counter_none(m, rules, gas_func) == m

add_grow_counter(m, rules, gas_func) ==
    [m EXCEPT !.bodies = Append(@, GrowThunk(rules, gas_func))]

\* Shift with > for >=.
ShiftStrict(func_index, gas_func) ==
    IF func_index > gas_func THEN func_index + 1 ELSE func_index

Shift(func_index, gas_func) ==
    IF func_index >= gas_func THEN func_index + 1 ELSE func_index

ShiftAll(indices, gas_func) == [k \in 1..Len(indices) |-> Shift(indices[k], gas_func)]

\* --------------------------------------------------------------- state

VARIABLES
    input,              \* the module given to inject_gas_counter
    rules,              \* the rule set: [grow_cost, forbid_floats]
    module,             \* the module being rewritten
    pc,                 \* "begin", "sections", "returned"; "running", "halted",
                        \* "trapped"; "insert", "inserted"
    gas_func,           \* locals of inject_gas_counter
    total_func,
    need_grow_counter,
    error,
    section,            \* position in sections(module) of the section being visited
    body,               \* position of the next body in the code section
    result,             \* [ok, module] once inject_gas_counter has returned
    run                 \* one execution of body 1 of the returned module

vars == <<input, rules, module, pc, gas_func, total_func, need_grow_counter,
          error, section, body, result, run>>

NoResult == [ok |-> FALSE, module |-> <<>>]

NoRun == [at |-> 0, labels |-> <<>>, acc |-> 0, charged |-> 0, used |-> 0,
          last |-> "none"]

\* The state on entry to inject_gas_counter(m, r).
Entry(m, r) ==
    /\ input = m
    /\ rules = r
    /\ module = m
    /\ pc = "begin"
    /\ gas_func = 0
    /\ total_func = 0
    /\ need_grow_counter = FALSE
    /\ error = FALSE
    /\ section = 1
    /\ body = 1
    /\ result = NoResult
    /\ run = NoRun

\* ------------------------------------------------------ inject_gas_counter

\* Begin with total_func measured before the gas import is pushed.
BeginEarlyTotal ==
    /\ pc = "begin"
    /\ module' = [module EXCEPT !.imports = Append(@, GasImport)]
    /\ gas_func' = import_count(module)
    /\ total_func' = functions_space(module)
    /\ pc' = "sections"
    /\ UNCHANGED <<input, rules, need_grow_counter, error, section, body, result, run>>

\* Lines 136-160: the gas import is pushed and the indices are computed.
Begin ==
    /\ pc = "begin"
    /\ LET m == [module EXCEPT !.imports = Append(@, GasImport)]
       IN  /\ module' = m
           /\ gas_func' = import_count(m) - 1
           /\ total_func' = functions_space(m)
    /\ pc' = "sections"
    /\ UNCHANGED <<input, rules, need_grow_counter, error, section, body, result, run>>

AtSection(s) ==
    /\ pc = "sections"
    /\ section <= Len(sections(module))
    /\ sections(module)[section] = s

RewriteExports ==
    /\ AtSection("export")
    /\ module' = [module EXCEPT !.exports = ShiftAll(@, gas_func)]
    /\ section' = section + 1
    /\ UNCHANGED <<input, rules, pc, gas_func, total_func, need_grow_counter,
                   error, body, result, run>>

RewriteElements ==
    /\ AtSection("element")
    /\ module' = [module EXCEPT !.elements =
                     [s \in 1..Len(@) |-> ShiftAll(@[s], gas_func)]]
    /\ section' = section + 1
    /\ UNCHANGED <<input, rules, pc, gas_func, total_func, need_grow_counter,
                   error, body, result, run>>

RewriteStart ==
    /\ AtSection("start")
    /\ module' = [module EXCEPT !.start = ShiftAll(@, gas_func)]
    /\ section' = section + 1
    /\ UNCHANGED <<input, rules, pc, gas_func, total_func, need_grow_counter,
                   error, body, result, run>>

\* ProcessBody with update_call_index run after inject_counter.
ProcessBodyShiftLast ==
    /\ AtSection("code")
    /\ body <= Len(module.bodies)
    /\ LET counted == inject_counter(module.bodies[body], rules, gas_func)
           updated == update_call_index(counted.instructions, gas_func)
           grown == inject_grow_counter(updated, total_func)
           replace == counted.ok /\ rules.grow_cost > 0
           last == ~counted.ok \/ body = Len(module.bodies)
       IN  /\ module' = [module EXCEPT !.bodies[body] =
                            IF replace THEN grown.instructions ELSE updated]
           /\ error' = ~counted.ok
           /\ need_grow_counter' = (need_grow_counter \/ (replace /\ grown.count > 0))
           /\ body' = body + 1
           /\ section' = IF last THEN section + 1 ELSE section
    /\ UNCHANGED <<input, rules, pc, gas_func, total_func, result, run>>

\* One iteration of the loop over the bodies of the code section (lines
\* 166-177); the section is left after the last body or on the break.
ProcessBody ==
    /\ AtSection("code")
    /\ body <= Len(module.bodies)
    /\ LET updated == update_call_index(module.bodies[body], gas_func)
           counted == inject_counter(updated, rules, gas_func)
           grown == inject_grow_counter(counted.instructions, total_func)
           replace == counted.ok /\ rules.grow_cost > 0
           last == ~counted.ok \/ body = Len(module.bodies)
       IN  /\ module' = [module EXCEPT !.bodies[body] =
                            IF replace THEN grown.instructions ELSE counted.instructions]
           /\ error' = ~counted.ok
           /\ need_grow_counter' = (need_grow_counter \/ (replace /\ grown.count > 0))
           /\ body' = body + 1
           /\ section' = IF last THEN section + 1 ELSE section
    /\ UNCHANGED <<input, rules, pc, gas_func, total_func, result, run>>

\* Lines 203-205.
Finish ==
    /\ pc = "sections"
    /\ section > Len(sections(module))
    /\ result' = IF error THEN [ok |-> FALSE, module |-> module]
                 ELSE IF need_grow_counter
                      THEN [ok |-> TRUE, module |-> add_grow_counter(module, rules, gas_func)]
                      ELSE [ok |-> TRUE, module |-> module]
    /\ pc' = "returned"
    /\ UNCHANGED <<input, rules, module, gas_func, total_func, need_grow_counter,
                   error, section, body, run>>

\* ------------------------------------------- execution of a function body

\* The structure of a body: the end (and the else) that closes the opener at
\* position p, found by counting nested openers.
RECURSIVE scan(_, _, _, _)
scan(instrs, p, depth, want) ==
    IF p >= Len(instrs) THEN -1
    ELSE
      LET op == instrs[p + 1].op
      IN  IF op \in {"block", "loop", "if"} THEN scan(instrs, p + 1, depth + 1, want)
          ELSE IF op = "end"
               THEN IF depth = 0 THEN (IF want = "end" THEN p ELSE -1)
                    ELSE scan(instrs, p + 1, depth - 1, want)
          ELSE IF op = "else" /\ depth = 0 /\ want = "else" THEN p
          ELSE scan(instrs, p + 1, depth, want)

EndOf(instrs, opener) == scan(instrs, opener + 1, 0, "end")
ElseOf(instrs, opener) == scan(instrs, opener + 1, 0, "else")

\* The body that runs: body 1 of the module inject_gas_counter returned.
Code == result.module.bodies[1]

Cur == Code[run.at + 1]

Running == pc = "running" /\ run.used < MaxGas

\* An inserted charge: i32.const <cost> immediately followed by call <gas>.
AtCharge ==
    /\ Cur.op = "i32_const"
    /\ run.at + 2 <= Len(Code)
    /\ Code[run.at + 2].op = "call"
    /\ Code[run.at + 2].arg = gas_func

\* The rule cost of an original instruction as it executes.  `end` and `else`
\* delimit the structure and are not executed.
ExecCost(instr) ==
    IF instr.op \in {"end", "else"} THEN 0 ELSE InstructionCost(rules, instr)

Pay(r) == [r EXCEPT !.used = @ + ExecCost(Cur), !.last = Cur.op]

\* Where a branch with relative label n goes: out of the function, back to the
\* first instruction of a loop, or past the end of a block or if.
BranchTo(r, n) ==
    LET d == Len(r.labels)
    IN  IF n >= d THEN [r EXCEPT !.at = -1]
        ELSE LET opener == r.labels[d - n]
             IN  IF Code[opener + 1].op = "loop"
                 THEN [r EXCEPT !.at = opener + 1, !.labels = SubSeq(@, 1, d - n)]
                 ELSE [r EXCEPT !.at = EndOf(Code, opener) + 1,
                                !.labels = SubSeq(@, 1, d - n - 1)]

\* The run after a step: halted when the function was left.
Land(r) ==
    /\ run' = r
    /\ pc' = IF r.at < 0 THEN "halted" ELSE "running"
    /\ UNCHANGED <<input, rules, module, gas_func, total_func, need_grow_counter,
                   error, section, body, result>>

Enter ==
    /\ pc = "returned"
    /\ result.ok
    /\ Land([NoRun EXCEPT !.last = "enter"])

ExecCharge ==
    /\ Running
    /\ AtCharge
    /\ Land([run EXCEPT !.at = @ + 2, !.acc = Cur.arg, !.charged = @ + Cur.arg,
                        !.last = "charge"])

ExecPlain ==
    /\ Running
    /\ ~AtCharge
    /\ Cur.op \notin {"block", "loop", "if", "else", "end", "br", "br_if",
                      "br_table", "return", "unreachable"}
    /\ Land([Pay(run) EXCEPT !.at = @ + 1])

ExecOpen ==
    /\ Running
    /\ Cur.op \in {"block", "loop"}
    /\ Land([Pay(run) EXCEPT !.at = @ + 1, !.labels = Append(@, run.at)])

\* The condition is any value: the then arm, or the else arm (the end when
\* there is none).
ExecIf ==
    /\ Running
    /\ Cur.op = "if"
    /\ \E cond \in BOOLEAN :
         LET else == ElseOf(Code, run.at)
             to == IF cond THEN run.at + 1
                   ELSE IF else >= 0 THEN else + 1 ELSE EndOf(Code, run.at)
         IN  Land([Pay(run) EXCEPT !.at = to, !.labels = Append(@, run.at)])

\* The then arm ran into its else: on to the end of the if.
ExecElse ==
    /\ Running
    /\ Cur.op = "else"
    /\ Land([Pay(run) EXCEPT !.at = EndOf(Code, run.labels[Len(run.labels)])])

ExecEnd ==
    /\ Running
    /\ Cur.op = "end"
    /\ Land(IF run.labels = <<>> THEN [Pay(run) EXCEPT !.at = -1]
            ELSE [Pay(run) EXCEPT !.at = @ + 1,
                                  !.labels = SubSeq(@, 1, Len(@) - 1)])

ExecBr ==
    /\ Running
    /\ Cur.op = "br"
    /\ Land(BranchTo(Pay(run), Cur.arg))

ExecBrIf ==
    /\ Running
    /\ Cur.op = "br_if"
    /\ \E cond \in BOOLEAN :
         Land(IF cond THEN BranchTo(Pay(run), Cur.arg)
              ELSE [Pay(run) EXCEPT !.at = @ + 1])

ExecBrTable ==
    /\ Running
    /\ Cur.op = "br_table"
    /\ \E k \in 1..(Len(Cur.table) + 1) :
         Land(BranchTo(Pay(run), Append(Cur.table, Cur.arg)[k]))

ExecReturn ==
    /\ Running
    /\ Cur.op = "return"
    /\ Land([Pay(run) EXCEPT !.at = -1])

\* The trap: the execution stops where it is.
ExecUnreachable ==
    /\ Running
    /\ Cur.op = "unreachable"
    /\ run' = Pay(run)
    /\ pc' = "trapped"
    /\ UNCHANGED <<input, rules, module, gas_func, total_func, need_grow_counter,
                   error, section, body, result>>

\* ------------------------------------------------------------- the inputs

DefaultRules == [grow_cost |-> 0, forbid_floats |-> FALSE]

Front(s) == SubSeq(s, 1, Len(s) - 1)

RECURSIVE Completions(_, _)
\* The instruction sequences of at most `room` instructions that close the
\* open frames (kinds of the enclosing block/loop/if/else) and the function.
Completions(room, frames) ==
    LET d == Len(frames)
    IN  IF room < d + 1 THEN {}
        ELSE
          LET ends == IF d = 0 THEN {<<End>>}
                      ELSE {<<End>> \o s : s \in Completions(room - 1, Front(frames))}
              plain == {GetGlobal(0), Return, Unreachable}
                          \cup {Br(n) : n \in 0..d} \cup {BrIf(n) : n \in 0..d}
                          \cup {BrTable(<<a>>, b) : a \in 0..(d - 1), b \in 1..d}
              rest == Completions(room - 1, frames)
              straight == {<<i>> \o s : i \in plain, s \in rest}
              arms == IF d > 0 /\ frames[d] = "if"
                      THEN {<<Else>> \o s :
                              s \in Completions(room - 1, [frames EXCEPT ![d] = "else"])}
                      ELSE {}
              nested == IF d < MaxDepth
                        THEN UNION {{<<o>> \o s :
                                        s \in Completions(room - 1, Append(frames, o.op))} :
                                     o \in {Block, Loop, If}}
                        ELSE {}
          IN  ends \cup straight \cup arms \cup nested

StructuredBodies == Completions(MaxLen, <<>>)

BodyModule(b) == [imports |-> <<>>, bodies |-> <<b>>, exports |-> <<>>,
                  elements |-> <<>>, start |-> <<>>]

\* The bodies of the tests of src/gas/mod.rs (as parse_wat reads them) and the
\* bodies the tests expect from inject_gas_counter.
G == GetGlobal(0)

Charge(cost) == <<I32Const(cost), Call(0)>>

simple == [input |-> <<G, End>>,
           expected |-> Charge(1) \o <<G, End>>]

nested == [input |-> <<G, Block, G, G, G, End, G, End>>,
           expected |-> Charge(6) \o <<G, Block, G, G, G, End, G, End>>]

ifelse == [input |-> <<G, If, G, G, G, Else, G, G, End, G, End>>,
           expected |-> Charge(3) \o <<G, If>> \o Charge(3) \o <<G, G, G, Else>>
                        \o Charge(2) \o <<G, G, End, G, End>>]

branch_innermost ==
    [input |-> <<G, Block, G, Drop, Br(0), G, Drop, End, G, End>>,
     expected |-> Charge(6) \o <<G, Block, G, Drop, Br(0)>> \o Charge(2)
                  \o <<G, Drop, End, G, End>>]

branch_outer_block ==
    [input |-> <<G, Block, G, If, G, G, Drop, BrIf(1), End, G, Drop, End, G, End>>,
     expected |-> Charge(5) \o <<G, Block, G, If>> \o Charge(4)
                  \o <<G, G, Drop, BrIf(1), End>> \o Charge(2)
                  \o <<G, Drop, End, G, End>>]

branch_outer_loop ==
    [input |-> <<G, Loop, G, If, G, BrIf(0), Else, G, G, Drop, BrIf(1), End,
                 G, Drop, End, G, End>>,
     expected |-> Charge(3) \o <<G, Loop>> \o Charge(4) \o <<G, If>> \o Charge(2)
                  \o <<G, BrIf(0), Else>> \o Charge(4)
                  \o <<G, G, Drop, BrIf(1), End, G, Drop, End, G, End>>]

return_from_func ==
    [input |-> <<G, If, Return, End, G, End>>,
     expected |-> Charge(2) \o <<G, If>> \o Charge(1) \o <<Return, End>>
                  \o Charge(1) \o <<G, End>>]

branch_from_if_not_else ==
    [input |-> <<G, Block, G, If, Br(1), Else, Br(0), End, G, Drop, End, G, End>>,
     expected |-> Charge(5) \o <<G, Block, G, If>> \o Charge(1) \o <<Br(1), Else>>
                  \o Charge(1) \o <<Br(0), End>> \o Charge(2)
                  \o <<G, Drop, End, G, End>>]

BodyTests == {simple, nested, ifelse, branch_innermost, branch_outer_block,
              branch_outer_loop, return_from_func, branch_from_if_not_else}

\* tests::simple_grow, tests::call_index and tests::forbidden: the module and
\* the rule set.
NoRefs(imports, bodies) == [imports |-> imports, bodies |-> bodies, exports |-> <<>>,
                            elements |-> <<>>, start |-> <<>>]

simple_grow ==
    [module |-> NoRefs(<<>>, << <<G, GrowMemory(0), End>> >>),
     rules |-> [grow_cost |-> TestGrowCost, forbid_floats |-> FALSE]]

call_index ==
    [module |-> NoRefs(<<>>, << <<End>>,
                   <<Call(0), If, Call(0), Call(0), Call(0), Else, Call(0), Call(0),
                     End, Call(0), End>> >>),
     rules |-> DefaultRules]

forbidden ==
    [module |-> NoRefs(<<>>, << <<F32Const(555555), End>> >>),
     rules |-> [grow_cost |-> 0, forbid_floats |-> TRUE]]

ModuleTests == {simple_grow, call_index, forbidden}

\* Modules of flat bodies: f imports; a first body of at most MaxBodyLen
\* instructions over calls to every function, call_indirect, memory.grow, an
\* integer and a float constant, and possibly a second body of at most one
\* instruction (a call, memory.grow or a float constant); and
\* either no function reference outside the code or the same function r
\* exported, in two element segments and as the start function.
RuleSets == {DefaultRules, [grow_cost |-> TestGrowCost, forbid_floats |-> TRUE]}

BodyCounts == {1, 2}

FlatInstrs(space) == {Call(k) : k \in 0..(space - 1)}
                       \cup {CallIndirect(0), GrowMemory(0), F32Const(1), I32Const(7)}

FlatBodies(space, len) ==
    UNION {{Append(s, End) : s \in [1..l -> FlatInstrs(space)]} : l \in 0..len}

SecondBodies(space) ==
    {<<End>>} \cup {<<i, End>> : i \in {Call(0), Call(space - 1), GrowMemory(0),
                                         F32Const(1)}}

Refs(space) == {[exports |-> <<>>, elements |-> <<>>, start |-> <<>>]}
                 \cup {[exports |-> <<r>>, elements |-> << <<r>>, <<0, r>> >>,
                        start |-> <<r>>] : r \in 0..(space - 1)}

FlatModule(f, first, rest, refs) ==
    [imports |-> [k \in 1..f |-> "env.f"], bodies |-> <<first>> \o rest,
     exports |-> refs.exports, elements |-> refs.elements, start |-> refs.start]

\* insert_metering_calls on its own: any body and any block list.
InsBodies == {[k \in 1..n |-> GetGlobal(k)] : n \in 0..MaxInsLen}

InsBlock == {MeteredBlock(p, c) : p \in 0..MaxInsLen, c \in 0..1}

RECURSIVE BlockLists(_)
BlockLists(len) ==
    IF len = 0 THEN {<<>>}
    ELSE LET shorter == BlockLists(len - 1)
         IN  shorter \cup {Append(s, b) : s \in shorter, b \in InsBlock}

\* ----------------------------------------------------- the specifications

\* inject_gas_counter on a module.
Init ==
    \/ \E f \in 0..MaxImports, n \in BodyCounts :
         \E first \in FlatBodies(f + n, MaxBodyLen),
            rest \in [1..(n - 1) -> SecondBodies(f + n)],
            refs \in Refs(f + n), r \in RuleSets :
                Entry(FlatModule(f, first, rest, refs), r)
    \/ \E t \in ModuleTests : Entry(t.module, t.rules)

Next ==
    \/ Begin
    \/ RewriteExports
    \/ RewriteStart
    \/ RewriteElements
    \/ ProcessBody
    \/ Finish

Spec == Init /\ [][Next]_vars

\* inject_gas_counter on a module of one structured body under the default
\* rules, and then every execution of the body it returns.
InitExec ==
    \E b \in StructuredBodies \cup {t.input : t \in BodyTests} :
        Entry(BodyModule(b), DefaultRules)

NextExec ==
    \/ Begin
    \/ ProcessBody
    \/ Finish
    \/ Enter
    \/ ExecCharge
    \/ ExecPlain
    \/ ExecOpen
    \/ ExecIf
    \/ ExecElse
    \/ ExecEnd
    \/ ExecBr
    \/ ExecBrIf
    \/ ExecBrTable
    \/ ExecReturn
    \/ ExecUnreachable

SpecExec == InitExec /\ [][NextExec]_vars

\* insert_metering_calls(instructions, blocks, gas_func) on any block list.
InitInsert ==
    \E b \in InsBodies, bl \in BlockLists(MaxBlocks), g \in 0..1 :
        /\ input = [instructions |-> b, blocks |-> bl]
        /\ rules = DefaultRules
        /\ module = <<>>
        /\ pc = "insert"
        /\ gas_func = g
        /\ total_func = 0
        /\ need_grow_counter = FALSE
        /\ error = FALSE
        /\ section = 1
        /\ body = 1
        /\ result = NoResult
        /\ run = NoRun

InsertMeteringCalls ==
    /\ pc = "insert"
    /\ result' = insert_metering_calls(input.instructions, input.blocks, gas_func)
    /\ pc' = "inserted"
    /\ UNCHANGED <<input, rules, module, gas_func, total_func, need_grow_counter,
                   error, section, body, run>>

NextInsert == InsertMeteringCalls

SpecInsert == InitInsert /\ [][NextInsert]_vars

\* The tests of src/gas/mod.rs pass on the model.
BodyTestsPass ==
    pc = "returned" =>
        \A t \in BodyTests :
            input = BodyModule(t.input) =>
                result.ok /\ result.module.bodies[1] = t.expected

\* ------------------------------------------- reading an instrumented body

IsCharge(instrs, k, gas) ==
    /\ k + 1 <= Len(instrs)
    /\ instrs[k].op = "i32_const"
    /\ instrs[k + 1].op = "call"
    /\ instrs[k + 1].arg = gas

RECURSIVE layout(_, _, _)
\* The instructions of a body that are not part of an `i32.const; call <gas>`
\* pair, in order: where each is (at) and the amount of the pair immediately
\* before it (charge, -1 when there is none).
layout(instrs, gas, k) ==
    IF k > Len(instrs) THEN <<>>
    ELSE IF IsCharge(instrs, k, gas)
         THEN IF k + 2 > Len(instrs) THEN <<>>
              ELSE <<[at |-> k + 2, charge |-> instrs[k].arg]>>
                   \o layout(instrs, gas, k + 3)
         ELSE <<[at |-> k, charge |-> -1]>> \o layout(instrs, gas, k + 1)

Layout(instrs, gas) == layout(instrs, gas, 1)

\* The body with the pairs deleted.
Stripped(instrs, gas) ==
    LET l == Layout(instrs, gas) IN [p \in 1..Len(l) |-> instrs[l[p].at]]

\* The number of `call <gas>` instructions of a body.
GasCalls(instrs, gas) ==
    Cardinality({k \in 1..Len(instrs) : instrs[k].op = "call" /\ instrs[k].arg = gas})

GrowCount(instrs) ==
    Cardinality({k \in 1..Len(instrs) : instrs[k].op = "grow_memory"})

RECURSIVE Sum(_)
Sum(s) == IF s = <<>> THEN 0 ELSE Head(s) + Sum(Tail(s))

\* What the claims call g: the number of function imports of the input module.
InputGas == Len(input.imports)

Returned == pc = "returned"

Succeeded == Returned /\ result.ok

Failed == Returned /\ ~result.ok

Out == result.module

HasGrow(m) == \E j \in 1..Len(m.bodies) : GrowCount(m.bodies[j]) > 0

\* The metered blocks of body j of the input, as inject_counter sees the body.
BlocksOf(j) ==
    determine_metered_blocks(update_call_index(input.bodies[j], InputGas), rules).blocks

\* Every function index a module refers to outside its code.
OuterRefs(m) ==
    {m.exports[k] : k \in 1..Len(m.exports)}
      \cup {m.start[k] : k \in 1..Len(m.start)}
      \cup UNION {{m.elements[s][k] : k \in 1..Len(m.elements[s])} :
                    s \in 1..Len(m.elements)}

CallRefs(m) ==
    UNION {{m.bodies[j][k].arg : k \in {i \in 1..Len(m.bodies[j]) :
                                          m.bodies[j][i].op = "call"}} :
             j \in 1..Len(m.bodies)}

\* ------------------------------------------------------------------ claims

\* C1: whenever inject_gas_counter fails, the module of the Err is the input
\* module unchanged.
C1_ErrIsInput == Failed => result.module = input

\* C4: after a successful injection every function index the input referred to
\* (call, export, element segment member, start) is one higher when it was >= g
\* and unchanged when it was < g, call_indirect operands are unchanged, and the
\* inserted `call g` of the charges are not shifted.
ShiftedRef(x) == IF x >= InputGas THEN x + 1 ELSE x

C4_Body(j) ==
    LET in == input.bodies[j]
        out == Out.bodies[j]
        kept == Stripped(out, InputGas)
    IN  /\ Len(kept) = Len(in)
        /\ Len(out) = Len(in) + 2 * Len(BlocksOf(j))
        /\ GasCalls(out, InputGas) = Len(BlocksOf(j))
        /\ \A k \in 1..Len(in) :
             /\ in[k].op = "call" => kept[k] = Call(ShiftedRef(in[k].arg))
             /\ in[k].op = "call_indirect" => kept[k] = in[k]

C4_IndexShift ==
    Succeeded =>
        /\ Out.exports = [k \in 1..Len(input.exports) |-> ShiftedRef(input.exports[k])]
        /\ Out.start = [k \in 1..Len(input.start) |-> ShiftedRef(input.start[k])]
        /\ Out.elements =
             [s \in 1..Len(input.elements) |->
                [k \in 1..Len(input.elements[s]) |-> ShiftedRef(input.elements[s][k])]]
        /\ \A j \in 1..Len(input.bodies) : C4_Body(j)

C4_Witness ==
    /\ Succeeded
    /\ InputGas > 0
    /\ \E x \in OuterRefs(input) : x >= InputGas
    /\ \E x \in OuterRefs(input) : x < InputGas
    /\ \E x \in CallRefs(input) : x >= InputGas
    /\ \E x \in CallRefs(input) : x < InputGas
    /\ \E k \in 1..Len(input.bodies[1]) : input.bodies[1][k].op = "call_indirect"

\* C5: with grow_cost > 0 and a memory.grow in the input, the output of a
\* successful injection has exactly one memory.grow, in the thunk; the thunk is
\* the last function, its index is the function space after the gas import was
\* added and before the thunk was, and every memory.grow of the original bodies
\* is a call to that index.
ThunkIndex == functions_space(input) + 1

C5_GrowThunk ==
    (Succeeded /\ rules.grow_cost > 0 /\ HasGrow(input)) =>
        LET n == Len(input.bodies)
        IN  /\ Len(Out.bodies) = n + 1
            /\ functions_space(Out) - 1 = ThunkIndex
            /\ GrowCount(Out.bodies[n + 1]) = 1
            /\ Sum([j \in 1..(n + 1) |-> GrowCount(Out.bodies[j])]) = 1
            /\ \A j \in 1..n :
                 LET kept == Stripped(Out.bodies[j], InputGas)
                 IN  /\ Len(kept) = Len(input.bodies[j])
                     /\ \A k \in 1..Len(kept) :
                          input.bodies[j][k].op = "grow_memory"
                              => kept[k] = Call(ThunkIndex)

C5_Witness ==
    /\ Succeeded
    /\ rules.grow_cost > 0
    /\ Len(input.bodies) = 2
    /\ GrowCount(input.bodies[1]) = 2
    /\ GrowCount(input.bodies[2]) = 1
    /\ InputGas = 1

\* C7 as stated: in a successfully injected module every function index
\* reference is >= the number of function imports and < the function space.
C7_Original ==
    Succeeded =>
        \A x \in OuterRefs(Out) \cup CallRefs(Out) :
            import_count(Out) <= x /\ x < functions_space(Out)

\* C7 amended: for an input whose references are inside its function space,
\* every function index reference of a successfully injected module is < its
\* function space; the references to module-defined functions of the input are
\* >= its number of function imports, while the inserted `call <gas>` refers
\* to the last import.
InputRefsValid ==
    \A x \in OuterRefs(input) \cup CallRefs(input) : x < functions_space(input)

C7_RefsInSpace ==
    (Succeeded /\ InputRefsValid) =>
        /\ \A x \in OuterRefs(Out) \cup CallRefs(Out) : x < functions_space(Out)
        /\ \A x \in OuterRefs(input) \cup CallRefs(input) :
             x >= InputGas => ShiftedRef(x) \in OuterRefs(Out) \cup CallRefs(Out)
                              /\ ShiftedRef(x) >= import_count(Out)
        /\ InputGas = import_count(Out) - 1
        /\ \A j \in 1..Len(input.bodies) :
             BlocksOf(j) # <<>> => GasCalls(Out.bodies[j], import_count(Out) - 1) > 0

C7_Witness ==
    /\ Succeeded
    /\ need_grow_counter
    /\ functions_space(input) - 1 \in OuterRefs(input) \cap CallRefs(input)
    /\ 0 \in CallRefs(input)
    /\ InputGas > 0

\* C8: round trip.  In every body of a successfully injected module, deleting
\* the inserted pairs, putting memory.grow 0 back for every call of the thunk
\* and decrementing every call index above the gas index gives the original
\* body; each pair is immediately before the original instruction at its
\* block's start_pos.
Restored(instr) ==
    IF instr.op = "call" /\ rules.grow_cost > 0 /\ instr.arg = ThunkIndex
    THEN GrowMemory(0)
    ELSE IF instr.op = "call" /\ instr.arg > InputGas THEN Call(instr.arg - 1)
    ELSE instr

RoundTrip(instrs) ==
    LET kept == Stripped(instrs, InputGas) IN [k \in 1..Len(kept) |-> Restored(kept[k])]

ChargesAtStarts(j) ==
    LET l == Layout(Out.bodies[j], InputGas)
        blocks == BlocksOf(j)
    IN  /\ Len(l) = Len(input.bodies[j])
        /\ \A p \in 1..Len(l) :
             l[p].charge =
               IF \E b \in 1..Len(blocks) : blocks[b].start_pos = p - 1
               THEN (CHOOSE c \in {blocks[b].cost : b \in
                        {x \in 1..Len(blocks) : blocks[x].start_pos = p - 1}} : TRUE)
               ELSE -1

C8_RoundTrip ==
    Succeeded =>
        \A j \in 1..Len(input.bodies) :
            /\ RoundTrip(Out.bodies[j]) = input.bodies[j]
            /\ ChargesAtStarts(j)

C8_Witness ==
    /\ Succeeded
    /\ rules.grow_cost > 0
    /\ InputGas = 1
    /\ input.bodies[1] = <<I32Const(7), Call(0), End>>
    /\ Len(input.bodies) = 2
    /\ input.bodies[2] = <<GrowMemory(0), End>>

\* The single body of a module of InitExec, its analysis and its output.
TheBody == input.bodies[1]

TheOutput == Out.bodies[1]

Analysis == analyze(TheBody, rules)

Ops(instrs) == {instrs[k].op : k \in 1..Len(instrs)}

Executed == pc \in {"running", "halted", "trapped"}

\* C2: no instruction executes unpaid.  On every execution path of an
\* instrumented body, when an original instruction executes the amount passed
\* to gas so far covers the rule cost of the original instructions executed so
\* far, that instruction included.
C2_Prepaid == Executed => run.used <= run.charged

C2_Witness ==
    /\ pc = "halted"
    /\ TheBody = branch_outer_loop.input
    /\ run.used >= 12
    /\ run.last = "end"

\* C3: instructions on a skipped path are not charged.  On every trap-free
\* execution path the block charges add up to exactly the rule cost of the
\* original instructions executed on the path.
C3_ExactCharge == pc = "halted" => run.charged = run.used

\* C6: in every body of a successfully injected module the number of
\* `call <gas>` equals the number of metered blocks of non-zero cost, and a
\* metered block of cost 0 produces no pair.
C6_ChargePerBlock ==
    Succeeded =>
        LET all == Analysis.finalized_blocks \o Analysis.dropped
            lay == Layout(TheOutput, InputGas)
        IN  /\ GasCalls(TheOutput, InputGas)
                 = Cardinality({k \in 1..Len(all) : all[k].cost > 0})
            /\ \A k \in 1..Len(TheOutput) :
                 IsCharge(TheOutput, k, InputGas) => TheOutput[k].arg > 0
            /\ \A k \in 1..Len(all) :
                 (all[k].cost = 0 /\ all[k].start_pos < Len(lay))
                     => lay[all[k].start_pos + 1].charge = -1

C6_Witness ==
    /\ Succeeded
    /\ Len(Analysis.dropped) >= 1
    /\ Len(Analysis.finalized_blocks) >= 2
    /\ \E k \in 1..Len(Analysis.dropped) : Analysis.dropped[k].start_pos < Len(TheBody)

RECURSIVE outer_cost(_, _, _)
\* The cost of the instructions of a body that are in no arm of an if.
outer_cost(instrs, k, opened) ==
    IF k > Len(instrs) THEN 0
    ELSE
      LET op == instrs[k].op
          inside == \E d \in 1..Len(opened) : opened[d] = "if"
      IN  IF op \in {"block", "loop", "if"}
          THEN (IF inside THEN 0 ELSE 1) + outer_cost(instrs, k + 1, Append(opened, op))
          ELSE IF op = "end"
               THEN outer_cost(instrs, k + 1,
                               IF opened = <<>> THEN opened ELSE Front(opened))
          ELSE (IF inside \/ op = "else" THEN 0 ELSE 1)
               + outer_cost(instrs, k + 1, opened)

OuterCost == outer_cost(TheBody, 1, <<>>)

BranchFreeBody == Ops(TheBody) \subseteq {"block", "if", "else", "end", "get_global", "drop"}

\* C9: merging.  After the end of a nested block or if/else that contains no
\* br, br_if, br_table or return there is no charge, and there is none at the
\* first instruction of a block; in a body without loops and branches the
\* charge at position 0 is the cost of all the instructions outside the arms
\* of the ifs (those before the openers, the openers, and those after the
\* ends); a body whose only control structures are branch-free blocks gets
\* exactly one charge, at position 0, of the total cost of the body.
Branches == {"br", "br_if", "br_table", "return", "unreachable"}

BranchFree(instrs, from, to) ==
    \A p \in (from + 1)..(to - 1) : instrs[p + 1].op \notin Branches

C9_Merging ==
    Succeeded =>
        LET lay == Layout(TheOutput, InputGas)
        IN  /\ Len(lay) = Len(TheBody)
            /\ \A p \in 0..(Len(TheBody) - 1) :
                 LET e == EndOf(TheBody, p)
                 IN  /\ (TheBody[p + 1].op \in {"block", "if"} /\ e >= 0
                           /\ BranchFree(TheBody, p, e) /\ e + 1 < Len(TheBody))
                        => lay[e + 2].charge = -1
                     /\ (TheBody[p + 1].op = "block" /\ p + 1 < Len(TheBody))
                        => lay[p + 2].charge = -1
            /\ (BranchFreeBody /\ OuterCost > 0)
                 => IsCharge(TheOutput, 1, InputGas) /\ TheOutput[1].arg = OuterCost

BlocksOnly == Ops(TheBody) \subseteq {"block", "end", "get_global", "drop"}

TotalCost == Sum([k \in 1..Len(TheBody) |-> ExecCost(TheBody[k])])

OneCharge(cost) ==
    /\ GasCalls(TheOutput, InputGas) = 1
    /\ IsCharge(TheOutput, 1, InputGas)
    /\ TheOutput[1].arg = cost

C9_Original ==
    /\ C9_Merging
    /\ (Succeeded /\ BlocksOnly) => OneCharge(TotalCost)

\* C9 amended: ... gets exactly one charge, at position 0, of the total cost of
\* the body when that cost is not 0, and no charge when it is 0 (the empty
\* body `end`).
C9_MergingNonZero ==
    /\ C9_Merging
    /\ (Succeeded /\ BlocksOnly) =>
          IF TotalCost > 0 THEN OneCharge(TotalCost)
          ELSE GasCalls(TheOutput, InputGas) = 0 /\ TheOutput = TheBody

C9_Witness ==
    /\ Succeeded
    /\ TheBody = nested.input
    /\ TheOutput = nested.expected

\* C10: insert_metering_calls returns Err exactly when a block is left
\* unconsumed, that is when the start_pos values are not strictly increasing
\* and below the body length; otherwise it returns Ok, every block is consumed
\* exactly once and the output has original_len + 2 * blocks.len()
\* instructions.
InOrder(blocks, len) ==
    \A k \in 1..Len(blocks) :
        /\ blocks[k].start_pos < len
        /\ k > 1 => blocks[k - 1].start_pos < blocks[k].start_pos

C10_Insert ==
    pc = "inserted" =>
        LET instrs == input.instructions
            blocks == input.blocks
            new == result.instructions
            lay == Layout(new, gas_func)
        IN  /\ result.ok <=> InOrder(blocks, Len(instrs))
            /\ ~result.ok <=> GasCalls(new, gas_func) < Len(blocks)
            /\ result.ok =>
                 /\ Len(new) = Len(instrs) + 2 * Len(blocks)
                 /\ GasCalls(new, gas_func) = Len(blocks)
                 /\ Stripped(new, gas_func) = instrs
                 /\ \A k \in 1..Len(blocks) :
                      lay[blocks[k].start_pos + 1].charge = blocks[k].cost

C10_Witness ==
    /\ pc = "inserted"
    /\ result.ok
    /\ Len(input.blocks) = MaxBlocks
    /\ Len(input.instructions) = MaxInsLen

\* The finalized blocks of a well-nested body have distinct start positions
\* inside the body, so the order sort_unstable_by_key leaves is unique and
\* inject_counter succeeds.
BlocksDistinct ==
    Returned =>
        /\ result.ok
        /\ \A a, b \in 1..Len(Analysis.finalized_blocks) :
             a < b => Analysis.finalized_blocks[a].start_pos
                        < Analysis.finalized_blocks[b].start_pos

====
